---------------------------- MODULE Spec2Model ----------------------------
(***************************************************************************)
(* A model of fentoimage/boardgen.py: PieceImage (the glyph provider with  *)
(* its memory cache, the read-only disk cache and the inkscape process)    *)
(* and FenToImage (the board renderer that paints 64 cells on a canvas).   *)
(*                                                                         *)
(* Four specifications share the variables:                                *)
(*   SpecGlyph    one PieceImage instance, render(piece) called in turn    *)
(*   Spec         one FenToImage instance, render(highlights) in turn      *)
(*   SpecThreads  two threads inside PieceImage.render on one instance     *)
(*   SpecPipe     one rasterizer run: Popen, the stdout pipe, wait, read   *)
(* Pixels are scaled down: a square is 2 or 3 pixels wide instead of 128.  *)
(***************************************************************************)
EXTENDS Integers, Sequences, FiniteSets, TLC

VARIABLES
    cache,        \* PieceImage.cache: piece symbol -> image
    disk,         \* the files under CACHE_LOCATION (paths)
    size,         \* PieceImage.size = FenToImage.square_size
    calls,        \* history of the PieceImage.render calls of SpecGlyph
    board,        \* FenToImage.board: square 0..63 -> piece symbol or NoPiece
    text,         \* FenToImage.text_config: [enabled, padding]
    heap,         \* the Image objects allocated by Image.new: id -> pixels
    self_image,   \* FenToImage.image: id into heap, 0 before the first render
    returned,     \* history of the FenToImage.render calls that returned
    renders,      \* number of FenToImage.render calls made
    tpc,          \* SpecThreads: each thread's position in PieceImage.render
    tpiece,       \* SpecThreads: each thread's argument `piece`
    frames,       \* SpecThreads: the locals cached_image / piece_image per frame
    tret,         \* SpecThreads: what each thread's call returned
    tstarts,      \* SpecThreads: rasterizer processes started, per piece symbol
    ppc,          \* SpecPipe: the caller's position in lines 89..111
    child,        \* SpecPipe: the rasterizer process: its output's length, what of
                  \* it is still to be written, its exit status
    pipe          \* SpecPipe: the stdout pipe between child and caller

glyphVars  == <<cache, disk, size, calls>>
boardVars  == <<board, text, heap, self_image, returned, renders>>
threadVars == <<tpc, tpiece, frames, tret, tstarts>>
pipeVars   == <<ppc, child, pipe>>
vars == <<cache, disk, size, calls, board, text, heap, self_image, returned, renders,
          tpc, tpiece, frames, tret, tstarts, ppc, child, pipe>>

-----------------------------------------------------------------------------
(* Bounds of the model.                                                    *)

\* render calls on the PieceImage instance of SpecGlyph
MaxCalls == 3
\* render calls on the FenToImage instance of Spec
MaxRenders == 2
\* the latest rasterizer run of one board render that may be made to fail
MaxFailAt == 2
\* render calls each thread of SpecThreads makes
MaxThreadCalls == 1
\* longest rasterizer output of SpecPipe, in pipe-sized units
MaxOutput == 5
\* capacity of the stdout pipe of SpecPipe, in the same units
PipeCapacity == 3

\* the square sizes tried (the code's default is 128)
SquareSizes == {2, 3}

-----------------------------------------------------------------------------
(* chess.Piece: a piece is held as its symbol(), upper case for white.     *)

WhiteSymbols == {"P", "N", "B", "R", "Q", "K"}
BlackSymbols == {"p", "n", "b", "r", "q", "k"}
PieceSymbols == WhiteSymbols \cup BlackSymbols

\* str.upper() on a piece symbol
Upper(psym) ==
    CASE psym = "p" -> "P" [] psym = "n" -> "N" [] psym = "b" -> "B"
      [] psym = "r" -> "R" [] psym = "q" -> "Q" [] psym = "k" -> "K"
      [] OTHER -> psym

\* str.islower() on a piece symbol
IsLower(psym) == psym \in BlackSymbols

\* Config.piece_theme
piece_theme == "cburnett"

\* PieceImage.piece_to_filename: "b" or "w", the upper-case letter, the extension
piece_to_filename(psym, extension) ==
    IF IsLower(psym) THEN <<"b", Upper(psym), extension>>
    ELSE <<"w", psym, extension>>

\* an image's content: the vector file it was rasterized from and its width
NoImage == [src |-> <<>>, w |-> 0]

\* inkscape <theme>/<file>.svg -w size --export-type png -o - : the PNG it writes
Rasterize(theme, svgfile, width) == [src |-> <<theme, svgfile[1], svgfile[2]>>, w |-> width]

\* CACHE_LOCATION / piece_theme / str(size) / file
CachePath(theme, sz, file) == <<theme, sz, file>>

\* Image.open(filepath) on a file of the cache tree: the raster kept there for
\* that theme, width and token
OpenCached(filepath) ==
    [src |-> <<filepath[1], filepath[3][1], filepath[3][2]>>, w |-> filepath[2]]

\* the key of the memory cache: piece.symbol()
CacheKey(psym) == psym

\* mutant of InMemory: the membership test never finds the key
InMemoryNever(c, psym) == FALSE

\* `psym in self.cache`
InMemory(c, psym) == CacheKey(psym) \in DOMAIN c

\* mutant of CacheStore: the assignment of line 108 is missing
CacheStoreDropped(c, psym, img) == c

\* self.cache[piece.symbol()] = piece_image
CacheStore(c, psym, img) ==
    [k \in DOMAIN c \cup {CacheKey(psym)} |-> IF k = CacheKey(psym) THEN img ELSE c[k]]

\* PieceImage.get_piece_from_cache: the image or NoImage (None), and whether
\* the disk was looked at
get_piece_from_cache(c, d, sz, psym) ==
    IF InMemory(c, psym)
    THEN [image |-> c[CacheKey(psym)], diskRead |-> FALSE]
    ELSE LET filepath == CachePath(piece_theme, sz, piece_to_filename(psym, ".png"))
         IN  IF filepath \in d
             THEN [image |-> OpenCached(filepath), diskRead |-> TRUE]
             ELSE [image |-> NoImage, diskRead |-> TRUE]

\* mutant of RasterOk: the exit status is not looked at
RasterOkAlways(rcode) == TRUE

\* `rcode != 0` decides between the raise of line 104 and lines 106..109
RasterOk(rcode) == rcode = 0

\* PieceImage.render(piece), the rasterizer exiting with rcode if it is started.
\* The result: the instance's cache and the disk afterwards, the image returned
\* (NoImage when it raised), and what the call did. The run of the process is
\* taken here as its exit status; SpecPipe models the run itself.
PieceRender(c, d, sz, psym, rcode) ==
    LET got == get_piece_from_cache(c, d, sz, psym)
    IN  IF got.image # NoImage
        THEN [cache |-> c, disk |-> d, image |-> got.image, raised |-> FALSE,
              started |-> FALSE, diskRead |-> got.diskRead]
        ELSE LET file == piece_to_filename(psym, ".svg")
                 piece_image == Rasterize(piece_theme, file, sz)
             IN  IF ~RasterOk(rcode)
                 THEN [cache |-> c, disk |-> d, image |-> NoImage, raised |-> TRUE,
                       started |-> TRUE, diskRead |-> got.diskRead]
                 ELSE [cache |-> CacheStore(c, psym, piece_image), disk |-> d,
                       image |-> piece_image, raised |-> FALSE,
                       started |-> TRUE, diskRead |-> got.diskRead]

\* the raster files that may already lie in the cache tree when the program starts
CachedSymbols == {"K"}
DiskOf(S, sz) == {CachePath(piece_theme, sz, piece_to_filename(s, ".png")) : s \in S}

-----------------------------------------------------------------------------
(* FenToImage: the configuration, the position and the canvas.             *)

\* SquareConfig.color, SquareConfig.highlight_color and TextConfig.color as
\* (light, dark) pairs; Python's index 0 is index 1 here
square_colors    == << <<240, 217, 181>>, <<181, 136, 99>> >>
highlight_colors == << <<205, 210, 106>>, <<170, 162, 58>> >>
text_colors      == << <<240, 217, 181>>, <<148, 111, 81>> >>

\* the text configurations tried: labels off or on, the padding scaled to the
\* scaled square
TextConfigs == {[enabled |-> e, padding |-> 0] : e \in BOOLEAN}

\* board.piece_at(square) of an empty square (None)
NoPiece == ""

Squares == 0..63

\* the piece placement field of a FEN string, character by character
FenEmpty == <<"8", "/", "8", "/", "8", "/", "8", "/", "8", "/", "8", "/", "8", "/", "8">>
FenKings == <<"k", "7", "/", "8", "/", "8", "/", "8", "/", "8", "/", "8", "/", "8", "/", "K", "7">>
FenMixed == <<"7", "q", "/", "8", "/", "8", "/", "8", "/", "3", "P", "4", "/", "8", "/", "8", "/",
              "K", "6", "R">>
Fens == {FenEmpty, FenKings, FenMixed}

FenDigits == <<"1", "2", "3", "4", "5", "6", "7", "8">>
IsFenDigit(ch) == \E n \in 1..8 : FenDigits[n] = ch
FenDigitValue(ch) == CHOOSE n \in 1..8 : FenDigits[n] = ch

\* chess.Board(fen): ranks 8 down to 1 separated by "/", a digit skipping that
\* many files; the square of file f and rank r is r*8 + f
RECURSIVE ParseFen(_, _, _, _, _)
ParseFen(fen, i, f, r, b) ==
    IF i > Len(fen) THEN b
    ELSE LET ch == fen[i]
         IN  IF ch = "/" THEN ParseFen(fen, i + 1, 0, r - 1, b)
             ELSE IF IsFenDigit(ch) THEN ParseFen(fen, i + 1, f + FenDigitValue(ch), r, b)
             ELSE ParseFen(fen, i + 1, f + 1, r, [b EXCEPT ![r * 8 + f] = ch])

Board(fen) == ParseFen(fen, 1, 0, 7, [sq \in Squares |-> NoPiece])

\* the pixels of an Image of the given width and height
Pixels(w, h) == (0..(w - 1)) \X (0..(h - 1))

\* Image.new(mode="RGB", size=(size, size)): every pixel black
NewImage(w, h) == [p \in Pixels(w, h) |-> <<0, 0, 0>>]

\* mutant of InitImage: the canvas is allocated once and painted over afterwards
InitImageOnce(hp, cur, sz) ==
    IF cur # 0 THEN [heap |-> hp, id |-> cur]
    ELSE [heap |-> Append(hp, NewImage(sz * 8, sz * 8)), id |-> Len(hp) + 1]

\* FenToImage._init_image: a new Image object, self.image refers to it
InitImage(hp, cur, sz) ==
    [heap |-> Append(hp, NewImage(sz * 8, sz * 8)), id |-> Len(hp) + 1]

\* mutant of get_square_at: the rank is not flipped
get_square_at_unflipped(x, y) == x + y * 8

\* FenToImage._get_square_at
get_square_at(x, y) == x + (7 - y) * 8

\* mutant of FillIndex: the parity of the column alone
FillIndexColumn(x, y) == x % 2

\* the index into colors / highlight_colors: (x + y) % 2
FillIndex(x, y) == (x + y) % 2

\* ImageDraw.rectangle((x0, y0, x1, y1), fill): both corners inclusive, clipped
\* to the image
DrawRectangle(img, x0, y0, x1, y1, fill) ==
    [p \in {q \in (x0..x1) \X (y0..y1) : q \in DOMAIN img} |-> fill] @@ img

\* FenToImage._render_square_background
render_square_background(img, sz, x, y, highlighted_squares) ==
    LET rectx == x * sz
        recty == y * sz
        fill_color == IF get_square_at(x, y) \in highlighted_squares
                      THEN highlight_colors[FillIndex(x, y) + 1]
                      ELSE square_colors[FillIndex(x, y) + 1]
    IN  DrawRectangle(img, rectx, recty, rectx + sz, recty + sz, fill_color)

\* ImageDraw.text(xy, ch, fill, anchor): the scaled label is one pixel. Anchor
\* "ls" (left, baseline) puts it right of and above xy, anchor "rt" (right, top)
\* left of and below xy.
DrawText(img, ax, ay, fill, anchor) ==
    LET at == IF anchor = "ls" THEN <<ax, ay - 1>> ELSE <<ax - 1, ay>>
    IN  IF at \in DOMAIN img THEN [img EXCEPT ![at] = fill] ELSE img

\* mutant of FileLabelIndex: the cell's own parity, the row of file letters being 7
FileLabelIndexOfCell(x) == (x + 7) % 2

\* the index into text_colors of the file letter of column x: x % 2
FileLabelIndex(x) == x % 2

\* the index into text_colors of the rank digit of row y: y % 2
RankLabelIndex(y) == y % 2

\* FenToImage._render_square_location
render_square_location(img, sz, txt, x, y) ==
    LET rectx == x * sz
        recty == y * sz
        img1 == IF y = 7
                THEN DrawText(img, rectx + txt.padding, recty + sz - txt.padding,
                              text_colors[FileLabelIndex(x) + 1], "ls")
                ELSE img
    IN  IF x = 7
        THEN DrawText(img1, rectx + sz - txt.padding, recty + txt.padding,
                      text_colors[RankLabelIndex(y) + 1], "rt")
        ELSE img1

\* the glyph as pixels: a square raster, opaque on its diagonal, where it has
\* the colour of its piece, and transparent elsewhere
GlyphOpaque(glyph, i, j) == i = j
GlyphColour(glyph) == <<glyph.src[2], glyph.src[3]>>

\* Image.paste(piece_image, (rectx, recty), piece_image): the glyph's opaque
\* pixels replace the canvas's, clipped to the canvas
Paste(img, glyph, rectx, recty) ==
    [p \in {q \in (rectx..(rectx + glyph.w - 1)) \X (recty..(recty + glyph.w - 1)) :
                q \in DOMAIN img /\ GlyphOpaque(glyph, q[1] - rectx, q[2] - recty)}
        |-> GlyphColour(glyph)] @@ img

\* FenToImage._render_piece within one render call. st holds the canvas, the
\* piece drawer's caches, whether the call has raised, the glyphs pasted and
\* the rasterizer runs so far; the failAt-th run of the call exits with 1.
render_piece(st, sz, brd, x, y, failAt) ==
    LET rectx == x * sz
        recty == y * sz
        piece == brd[get_square_at(x, y)]
    IN  IF piece = NoPiece THEN st
        ELSE LET r == PieceRender(st.cache, st.disk, sz, piece,
                                  IF st.starts + 1 = failAt THEN 1 ELSE 0)
                 n == st.starts + (IF r.started THEN 1 ELSE 0)
             IN  IF r.raised
                 THEN [st EXCEPT !.raised = TRUE, !.starts = n]
                 ELSE [img |-> Paste(st.img, r.image, rectx, recty),
                       cache |-> r.cache, disk |-> r.disk, raised |-> FALSE,
                       pastes |-> Append(st.pastes,
                                         [image |-> r.image, at |-> <<rectx, recty>>]),
                       starts |-> n]

\* the body of the loops of FenToImage.render for the cell (x, y)
RenderCell(st, sz, brd, txt, x, y, highlighted_squares, failAt) ==
    LET bg  == render_square_background(st.img, sz, x, y, highlighted_squares)
        loc == IF txt.enabled THEN render_square_location(bg, sz, txt, x, y) ELSE bg
    IN  render_piece([st EXCEPT !.img = loc], sz, brd, x, y, failAt)

\* mutant of CellAt: both loops run downwards
CellAtDescending(k) == [x |-> 7 - (k \div 8), y |-> 7 - (k % 8)]

\* the k-th cell of `for x in range(8): for y in range(8)`
CellAt(k) == [x |-> k \div 8, y |-> k % 8]

\* the loops of FenToImage.render from the k-th cell on; an exception ends them
RECURSIVE RenderCells(_, _, _, _, _, _, _)
RenderCells(st, k, sz, brd, txt, highlighted_squares, failAt) ==
    IF k = 64 \/ st.raised THEN st
    ELSE RenderCells(RenderCell(st, sz, brd, txt, CellAt(k).x, CellAt(k).y,
                                highlighted_squares, failAt),
                     k + 1, sz, brd, txt, highlighted_squares, failAt)

\* the square of a file and a rank, as chess.square(file, rank)
SquareOf(file, rank) == rank * 8 + file

\* the highlight sets tried: none, a8, h1 and d4
HighlightSets == {{}, {SquareOf(0, 7)}, {SquareOf(7, 0)}, {SquareOf(3, 3)}}

-----------------------------------------------------------------------------
(* Values of the variables a specification does not use.                   *)

IdleBoard ==
    /\ board = <<>> /\ text = [enabled |-> FALSE, padding |-> 0]
    /\ heap = <<>> /\ self_image = 0 /\ returned = <<>> /\ renders = 0
IdleThreads ==
    /\ tpc = <<>> /\ tpiece = <<>> /\ frames = <<>> /\ tret = <<>> /\ tstarts = <<>>
IdlePipe ==
    /\ ppc = "idle" /\ child = [state |-> "none", out |-> 0, left |-> 0, rcode |-> 0]
    /\ pipe = 0

-----------------------------------------------------------------------------
(* SpecGlyph: one PieceImage instance, render called in turn.              *)

GlyphInit ==
    /\ cache = <<>>
    /\ size \in SquareSizes
    /\ \E S \in SUBSET CachedSymbols : disk = DiskOf(S, size)
    /\ calls = <<>>
    /\ IdleBoard /\ IdleThreads /\ IdlePipe

\* one call of PieceImage.render(piece); rcode is the rasterizer's exit status
GlyphRender(psym, rcode) ==
    /\ Len(calls) < MaxCalls
    /\ LET r == PieceRender(cache, disk, size, psym, rcode)
       IN  /\ r.started \/ rcode = 0
           /\ cache' = r.cache
           /\ disk' = r.disk
           /\ calls' = Append(calls,
                  [piece |-> psym, rcode |-> rcode, image |-> r.image,
                   raised |-> r.raised, started |-> r.started,
                   diskRead |-> r.diskRead,
                   cacheBefore |-> cache, cacheAfter |-> r.cache,
                   diskBefore |-> disk, diskAfter |-> r.disk])
    /\ UNCHANGED <<size, boardVars, threadVars, pipeVars>>

GlyphNext == \E psym \in PieceSymbols, rcode \in {0, 1} : GlyphRender(psym, rcode)

SpecGlyph == GlyphInit /\ [][GlyphNext]_vars

-----------------------------------------------------------------------------
(* Spec: one FenToImage instance, render called in turn.                   *)

Init ==
    /\ \E fen \in Fens : board = Board(fen)
    /\ text \in TextConfigs
    /\ size \in SquareSizes
    /\ cache = <<>>
    /\ \E S \in SUBSET CachedSymbols : disk = DiskOf(S, size)
    /\ heap = <<>> /\ self_image = 0 /\ returned = <<>> /\ renders = 0
    /\ calls = <<>>
    /\ IdleThreads /\ IdlePipe

\* the pieces of the position whose render would start the rasterizer now
NeedRaster(brd, c, d, sz) ==
    {brd[sq] : sq \in {q \in Squares : brd[q] # NoPiece}} \
        {psym \in PieceSymbols : get_piece_from_cache(c, d, sz, psym).image # NoImage}

\* FenToImage.render with its highlighted squares; the failAt-th rasterizer run of the
\* call exits non-zero (0: none does)
Render(highlighted_squares, failAt) ==
    /\ renders < MaxRenders
    /\ failAt <= Cardinality(NeedRaster(board, cache, disk, size))
    /\ \E a \in {InitImage(heap, self_image, size)} :
       \E st \in {RenderCells([img |-> a.heap[a.id], cache |-> cache, disk |-> disk,
                                raised |-> FALSE, pastes |-> <<>>, starts |-> 0],
                               0, size, board, text, highlighted_squares, failAt)} :
           /\ failAt = 0 \/ st.raised
           /\ heap' = [a.heap EXCEPT ![a.id] = st.img]
           /\ self_image' = a.id
           /\ cache' = st.cache
           /\ disk' = st.disk
           /\ returned' = IF st.raised THEN returned
                          ELSE Append(returned,
                                   [highlighted |-> highlighted_squares, image |-> a.id,
                                    pixels |-> st.img, pastes |-> st.pastes,
                                    starts |-> st.starts, cacheBefore |-> cache])
    /\ renders' = renders + 1
    /\ UNCHANGED <<board, text, size, calls, threadVars, pipeVars>>

Next == \E H \in HighlightSets, failAt \in 0..MaxFailAt : Render(H, failAt)

Spec == Init /\ [][Next]_vars

-----------------------------------------------------------------------------
(* SpecThreads: two threads call PieceImage.render on one instance, with   *)
(* no lock. Each step is one access to the shared instance or to the       *)
(* outside world; the locals of a call live in its own frame.              *)

Threads == {1, 2}

\* the pieces the threads ask for: one that may be in the disk cache, the same
\* kind in the other colour, and another kind
ThreadPieces == {"K", "k", "q"}

EmptyFrame == [cached_image |-> NoImage, piece_image |-> NoImage]

\* mutant of FrameOf: the locals are kept on the instance, shared by all calls
FrameShared(t) == 1

\* the frame that holds the locals of thread t's call
FrameOf(t) == t

ThreadsInit ==
    /\ cache = <<>>
    /\ size \in SquareSizes
    /\ \E S \in SUBSET CachedSymbols : disk = DiskOf(S, size)
    /\ calls = <<>>
    /\ tpc = [t \in Threads |-> "idle"]
    /\ tpiece = [t \in Threads |-> NoPiece]
    /\ frames = [t \in Threads |-> EmptyFrame]
    /\ tret = [t \in Threads |-> <<>>]
    /\ tstarts = [p \in ThreadPieces |-> 0]
    /\ IdleBoard /\ IdlePipe

\* line 82: thread t enters render(piece)
TCall(t, psym) ==
    /\ tpc[t] = "idle" /\ Len(tret[t]) < MaxThreadCalls
    /\ tpiece' = [tpiece EXCEPT ![t] = psym]
    /\ tpc' = [tpc EXCEPT ![t] = "check_memory"]
    /\ UNCHANGED <<glyphVars, boardVars, frames, tret, tstarts, pipeVars>>

\* line 75: `psym in self.cache`
TCheckMemory(t) ==
    /\ tpc[t] = "check_memory"
    /\ tpc' = [tpc EXCEPT ![t] = IF InMemory(cache, tpiece[t]) THEN "read_memory"
                                 ELSE "check_disk"]
    /\ UNCHANGED <<glyphVars, boardVars, tpiece, frames, tret, tstarts, pipeVars>>

\* line 76: `return self.cache[psym]`, assigned to cached_image at line 83
TReadMemory(t) ==
    /\ tpc[t] = "read_memory"
    /\ frames' = [frames EXCEPT ![FrameOf(t)].cached_image = cache[CacheKey(tpiece[t])]]
    /\ tpc' = [tpc EXCEPT ![t] = "test_cached"]
    /\ UNCHANGED <<glyphVars, boardVars, tpiece, tret, tstarts, pipeVars>>

\* lines 77..80: the file of the disk cache, opened if it exists, else None
TCheckDisk(t) ==
    /\ tpc[t] = "check_disk"
    /\ LET filepath == CachePath(piece_theme, size, piece_to_filename(tpiece[t], ".png"))
       IN  frames' = [frames EXCEPT ![FrameOf(t)].cached_image =
                          IF filepath \in disk THEN OpenCached(filepath) ELSE NoImage]
    /\ tpc' = [tpc EXCEPT ![t] = "test_cached"]
    /\ UNCHANGED <<glyphVars, boardVars, tpiece, tret, tstarts, pipeVars>>

\* lines 84..85: `if cached_image: return cached_image`
TTestCached(t) ==
    /\ tpc[t] = "test_cached"
    /\ IF frames[FrameOf(t)].cached_image # NoImage
       THEN /\ tret' = [tret EXCEPT ![t] = Append(@,
                            [piece |-> tpiece[t], raised |-> FALSE,
                             image |-> frames[FrameOf(t)].cached_image])]
            /\ tpc' = [tpc EXCEPT ![t] = "idle"]
            /\ frames' = [frames EXCEPT ![FrameOf(t)] = EmptyFrame]
       ELSE /\ tpc' = [tpc EXCEPT ![t] = "popen"]
            /\ UNCHANGED <<tret, frames>>
    /\ UNCHANGED <<glyphVars, boardVars, tpiece, tstarts, pipeVars>>

\* lines 87..101: the rasterizer process is started
TPopen(t) ==
    /\ tpc[t] = "popen"
    /\ tstarts' = [tstarts EXCEPT ![tpiece[t]] = @ + 1]
    /\ tpc' = [tpc EXCEPT ![t] = "wait"]
    /\ UNCHANGED <<glyphVars, boardVars, tpiece, frames, tret, pipeVars>>

\* lines 102..104: the process has exited with rcode; non-zero raises
TWait(t, rcode) ==
    /\ tpc[t] = "wait"
    /\ IF RasterOk(rcode)
       THEN /\ tpc' = [tpc EXCEPT ![t] = "open_stdout"]
            /\ UNCHANGED <<tret, frames>>
       ELSE /\ tret' = [tret EXCEPT ![t] = Append(@,
                            [piece |-> tpiece[t], raised |-> TRUE, image |-> NoImage])]
            /\ tpc' = [tpc EXCEPT ![t] = "idle"]
            /\ frames' = [frames EXCEPT ![FrameOf(t)] = EmptyFrame]
    /\ UNCHANGED <<glyphVars, boardVars, tpiece, tstarts, pipeVars>>

\* line 107: piece_image = Image.open(inkscape_proc.stdout)
TOpenStdout(t) ==
    /\ tpc[t] = "open_stdout"
    /\ frames' = [frames EXCEPT ![FrameOf(t)].piece_image =
                      Rasterize(piece_theme, piece_to_filename(tpiece[t], ".svg"), size)]
    /\ tpc' = [tpc EXCEPT ![t] = "store"]
    /\ UNCHANGED <<glyphVars, boardVars, tpiece, tret, tstarts, pipeVars>>

\* line 108: self.cache[piece.symbol()] = piece_image
TStore(t) ==
    /\ tpc[t] = "store"
    /\ cache' = CacheStore(cache, tpiece[t], frames[FrameOf(t)].piece_image)
    /\ tpc' = [tpc EXCEPT ![t] = "return"]
    /\ UNCHANGED <<disk, size, calls, boardVars, tpiece, frames, tret, tstarts, pipeVars>>

\* line 109: return piece_image
TReturn(t) ==
    /\ tpc[t] = "return"
    /\ tret' = [tret EXCEPT ![t] = Append(@,
                    [piece |-> tpiece[t], raised |-> FALSE,
                     image |-> frames[FrameOf(t)].piece_image])]
    /\ tpc' = [tpc EXCEPT ![t] = "idle"]
    /\ frames' = [frames EXCEPT ![FrameOf(t)] = EmptyFrame]
    /\ UNCHANGED <<glyphVars, boardVars, tpiece, tstarts, pipeVars>>

ThreadsNext ==
    \E t \in Threads :
        \/ \E psym \in ThreadPieces : TCall(t, psym)
        \/ TCheckMemory(t)
        \/ TReadMemory(t)
        \/ TCheckDisk(t)
        \/ TTestCached(t)
        \/ TPopen(t)
        \/ \E rcode \in {0, 1} : TWait(t, rcode)
        \/ TOpenStdout(t)
        \/ TStore(t)
        \/ TReturn(t)

SpecThreads == ThreadsInit /\ [][ThreadsNext]_vars

-----------------------------------------------------------------------------
(* SpecPipe: one rasterizer run of PieceImage.render on a full cache miss. *)
(* Popen(..., stdout=PIPE) connects the child's standard output to a pipe  *)
(* of bounded capacity; the caller calls wait() before it reads the pipe.  *)

PipeInit ==
    /\ ppc = "idle"
    /\ child = [state |-> "none", out |-> 0, left |-> 0, rcode |-> 0]
    /\ pipe = 0
    /\ cache = <<>> /\ disk = {} /\ size \in SquareSizes /\ calls = <<>>
    /\ IdleBoard /\ IdleThreads

\* lines 89..101: the rasterizer is started; it has n units of PNG to write to
\* its standard output and will exit with rcode once it has written them
PPopen(n, rcode) ==
    /\ ppc = "idle"
    /\ child' = [state |-> "running", out |-> n, left |-> n, rcode |-> rcode]
    /\ pipe' = 0
    /\ ppc' = "wait"
    /\ UNCHANGED <<glyphVars, boardVars, threadVars>>

\* the child writes one unit to its standard output; the write blocks while
\* the pipe is full
ChildWrite ==
    /\ child.state = "running" /\ child.left > 0
    /\ pipe < PipeCapacity
    /\ child' = [child EXCEPT !.left = @ - 1]
    /\ pipe' = pipe + 1
    /\ UNCHANGED <<ppc, glyphVars, boardVars, threadVars>>

\* the child exits once all of its output has been accepted by the pipe
ChildExit ==
    /\ child.state = "running" /\ child.left = 0
    /\ child' = [child EXCEPT !.state = "exited"]
    /\ UNCHANGED <<ppc, pipe, glyphVars, boardVars, threadVars>>

\* lines 102..104: inkscape_proc.wait() returns when the child has exited; a
\* non-zero status raises
PWait ==
    /\ ppc = "wait"
    /\ child.state = "exited"
    /\ ppc' = IF RasterOk(child.rcode) THEN "read" ELSE "raised"
    /\ UNCHANGED <<child, pipe, glyphVars, boardVars, threadVars>>

\* line 107: Image.open(inkscape_proc.stdout) reads the pipe, unit by unit
PRead ==
    /\ ppc = "read"
    /\ pipe > 0
    /\ pipe' = pipe - 1
    /\ UNCHANGED <<ppc, child, glyphVars, boardVars, threadVars>>

\* lines 108..109: the pipe is at end of file; the image is stored and returned
PReturn ==
    /\ ppc = "read"
    /\ pipe = 0
    /\ ppc' = "done"
    /\ cache' = CacheStore(cache, "K", Rasterize(piece_theme, piece_to_filename("K", ".svg"), size))
    /\ UNCHANGED <<disk, size, calls, child, pipe, boardVars, threadVars>>

PipeNext ==
    \/ \E n \in 0..MaxOutput, rcode \in {0, 1} : PPopen(n, rcode)
    \/ ChildWrite
    \/ ChildExit
    \/ PWait
    \/ PRead
    \/ PReturn

SpecPipe == PipeInit /\ [][PipeNext]_vars

-----------------------------------------------------------------------------
(* Claims about PieceImage, checked under SpecGlyph.                       *)

NCalls == Len(calls)

\* C1: once a render of a piece has succeeded, every later render of that piece
\* returns the same image content, succeeds, and does not start the rasterizer:
\* only the first call for a piece (cold cache) can start it.
C1_RenderIdempotent ==
    \A i \in 1..NCalls : \A j \in 1..NCalls :
        (i < j /\ calls[i].piece = calls[j].piece /\ ~calls[i].raised)
        => /\ ~calls[j].started
           /\ ~calls[j].raised
           /\ calls[j].image = calls[i].image

\* a piece rendered twice, the first call having run the rasterizer
C1_Witness ==
    \E i \in 1..NCalls : \E j \in 1..NCalls :
        /\ i < j /\ calls[i].piece = calls[j].piece
        /\ calls[i].started /\ ~calls[i].raised /\ ~calls[j].raised

\* C2: a rasterizer run that exits non-zero makes render raise, return no
\* image and leave the memory cache and the disk cache as they were; a render
\* of the same piece right after it starts the rasterizer again.
C2_FailedRasterLeavesCaches ==
    \A i \in 1..NCalls :
        (calls[i].started /\ calls[i].rcode # 0)
        => /\ calls[i].raised
           /\ calls[i].image = NoImage
           /\ calls[i].cacheAfter = calls[i].cacheBefore
           /\ calls[i].diskAfter = calls[i].diskBefore
           /\ (i < NCalls /\ calls[i + 1].piece = calls[i].piece)
                  => calls[i + 1].started

\* a failed run followed by a render of the same piece
C2_Witness ==
    \E i \in 1..NCalls :
        /\ calls[i].started /\ calls[i].rcode # 0 /\ calls[i].raised
        /\ i < NCalls /\ calls[i + 1].piece = calls[i].piece /\ calls[i + 1].started

\* the raster file of a piece in the cache tree: cache/<theme>/<size>/<token>.png
PngOf(psym) == CachePath(piece_theme, size, piece_to_filename(psym, ".png"))

\* C9: memory, then disk, then rasterizer, the first hit winning. A memory hit
\* reads no disk and starts no process; a memory miss with the raster file
\* present returns that file's image, starts no process and leaves the memory
\* cache as it was; no call changes the disk cache; and a piece is in the
\* memory cache only if a rasterizer run for it succeeded on this instance.
C9_LookupChain ==
    /\ \A i \in 1..NCalls :
          LET c == calls[i]
              hit == c.piece \in DOMAIN c.cacheBefore
          IN  /\ hit => /\ ~c.diskRead /\ ~c.started /\ ~c.raised
                        /\ c.image = c.cacheBefore[c.piece]
              /\ (~hit /\ PngOf(c.piece) \in c.diskBefore)
                     => /\ c.diskRead /\ ~c.started /\ ~c.raised
                        /\ c.image = OpenCached(PngOf(c.piece))
                        /\ c.cacheAfter = c.cacheBefore
              /\ c.diskAfter = c.diskBefore
    /\ \A p \in DOMAIN cache :
          \E i \in 1..NCalls :
              calls[i].piece = p /\ calls[i].started /\ ~calls[i].raised

\* a memory hit, and a piece served from the disk that is still not in memory
C9_Witness ==
    /\ \E i \in 1..NCalls :
          calls[i].piece \in DOMAIN calls[i].cacheBefore /\ ~calls[i].diskRead
    /\ \E i \in 1..NCalls :
          /\ PngOf(calls[i].piece) \in disk
          /\ calls[i].diskRead /\ ~calls[i].started /\ calls[i].image # NoImage
          /\ calls[i].piece \notin DOMAIN cache

-----------------------------------------------------------------------------
(* Claims about FenToImage, checked under Spec.                            *)

NReturned == Len(returned)

\* the image object a render call returned, as it is now
ImageOf(k) == heap[returned[k].image]

\* the pixels of the cell of column col and row row
CellPixels(col, row) ==
    ((col * size)..(col * size + size - 1)) \X ((row * size)..(row * size + size - 1))

\* the cell in which a square is drawn: column = file, row = 7 - rank
CellOfSquare(sq) == CellPixels(sq % 8, 7 - (sq \div 8))

\* where the labels of a cell lie, when it has them
FileLabelAt(col, row) == <<col * size + text.padding, row * size + size - text.padding - 1>>
RankLabelAt(col, row) == <<col * size + size - text.padding - 1, row * size + text.padding>>

\* the pixels of a cell that show its fill: off the glyph's diagonal and off the labels
CellBackground(col, row) ==
    {p \in CellPixels(col, row) :
        /\ p[1] - col * size # p[2] - row * size
        /\ text.enabled => (p # FileLabelAt(col, row) /\ p # RankLabelAt(col, row))}

\* C3: the image of render() and the image of render(sq) are equal at every
\* pixel outside sq's cell.
C3_HighlightIsOverlay ==
    \A i \in 1..NReturned : \A j \in 1..NReturned : \A sq \in Squares :
        (returned[i].highlighted = {} /\ returned[j].highlighted = {sq})
        => \A p \in DOMAIN ImageOf(i) :
               p \notin CellOfSquare(sq) => ImageOf(i)[p] = ImageOf(j)[p]

\* render() and render(sq) both returned, and their images differ inside sq's cell
C3_Witness ==
    \E i \in 1..NReturned : \E j \in 1..NReturned : \E sq \in Squares :
        /\ returned[i].highlighted = {} /\ returned[j].highlighted = {sq}
        /\ \E p \in CellOfSquare(sq) : ImageOf(i)[p] # ImageOf(j)[p]

\* the fill a cell shows under a highlight set, by the parity (col + row) mod 2
ParityFill(col, row, H) ==
    IF (col + (7 - row) * 8) \in H
    THEN highlight_colors[((col + row) % 2) + 1]
    ELSE square_colors[((col + row) % 2) + 1]

ExpectedGlyph(psym) == <<IF psym \in WhiteSymbols THEN "w" ELSE "b", Upper(psym)>>

\* C5: the cell at pixel offset (col*size, row*size) shows the square of file
\* col and rank 7 - row; the mapping is a bijection onto the 64 squares; a glyph
\* is pasted at that offset exactly when the square is occupied, and it is the
\* occupant's; for the two-kings position with a8 highlighted the dark king is
\* at (0, 0), the light king at (0, 7*size), and only a8's cell has a highlight
\* colour.
C5_CellShowsItsSquare ==
    /\ {get_square_at(x, y) : x \in 0..7, y \in 0..7} = Squares
    /\ \A k \in 1..NReturned : \A col \in 0..7 : \A row \in 0..7 :
          LET occupant == board[col + (7 - row) * 8]
              at == <<col * size, row * size>>
              pasted == {n \in 1..Len(returned[k].pastes) : returned[k].pastes[n].at = at}
          IN  /\ (occupant # NoPiece) <=> (pasted # {})
              /\ occupant # NoPiece
                     => /\ ImageOf(k)[at] = ExpectedGlyph(occupant)
                        /\ \A n \in pasted :
                               <<returned[k].pastes[n].image.src[2],
                                 returned[k].pastes[n].image.src[3]>> = ExpectedGlyph(occupant)
              /\ occupant = NoPiece
                     => ImageOf(k)[at] = ParityFill(col, row, returned[k].highlighted)
    /\ \A k \in 1..NReturned :
          (board = Board(FenKings) /\ returned[k].highlighted = {SquareOf(0, 7)})
          => /\ ImageOf(k)[<<0, 0>>] = <<"b", "K">>
             /\ ImageOf(k)[<<0, 7 * size>>] = <<"w", "K">>
             /\ \A col \in 0..7 : \A row \in 0..7 : \A p \in CellBackground(col, row) :
                    ImageOf(k)[p] = IF col = 0 /\ row = 0
                                    THEN highlight_colors[1]
                                    ELSE square_colors[((col + row) % 2) + 1]

\* the two-kings position was rendered with a8 highlighted
C5_Witness ==
    \E k \in 1..NReturned :
        /\ board = Board(FenKings) /\ returned[k].highlighted = {SquareOf(0, 7)}
        /\ Len(returned[k].pastes) = 2

\* C6: the empty board without labels and without highlights comes out as a
\* canvas of exactly 8*size by 8*size pixels, each of the fill colour of index
\* ((px div size) + (py div size)) mod 2, with no glyph pasted and no
\* rasterizer started.
C6_EmptyBoardIsCheckerboard ==
    \A k \in 1..NReturned :
        (board = Board(FenEmpty) /\ ~text.enabled /\ returned[k].highlighted = {})
        => /\ DOMAIN ImageOf(k) = Pixels(8 * size, 8 * size)
           /\ \A p \in DOMAIN ImageOf(k) :
                  ImageOf(k)[p] = square_colors[(((p[1] \div size) + (p[2] \div size)) % 2) + 1]
           /\ returned[k].pastes = <<>>
           /\ returned[k].starts = 0

\* the empty board was rendered without labels and without highlights
C6_Witness ==
    \E k \in 1..NReturned :
        board = Board(FenEmpty) /\ ~text.enabled /\ returned[k].highlighted = {}

\* what a new FenToImage of the same position, style and size returns for
\* render of the highlight set H, every rasterizer run succeeding
FreshRender(H) ==
    RenderCells([img |-> NewImage(size * 8, size * 8), cache |-> <<>>, disk |-> disk,
                 raised |-> FALSE, pastes |-> <<>>, starts |-> 0],
                0, size, board, text, H, 0).img

\* C7: the image the k-th render call returned is the one a new renderer
\* returns for the k-th highlight set, whatever was rendered before, and it
\* has not changed since it was returned.
C7_RendersAreIndependent ==
    \A k \in 1..NReturned :
        /\ returned[k].pixels = FreshRender(returned[k].highlighted)
        /\ ImageOf(k) = returned[k].pixels

\* two calls returned, the earlier with a highlight the later one lacks, the
\* later one served by a warm memory cache
C7_Witness ==
    /\ NReturned = 2
    /\ returned[1].highlighted \ returned[2].highlighted # {}
    /\ returned[2].cacheBefore # <<>>

-----------------------------------------------------------------------------
(* Claims about concurrent use of PieceImage, checked under SpecThreads.   *)

\* the glyph of a piece at the instance's theme and size
GlyphOfPiece(psym) ==
    [src |-> <<piece_theme, IF psym \in WhiteSymbols THEN "w" ELSE "b", Upper(psym)>>,
     w |-> size]

\* C8: under every interleaving of two unsynchronized render calls, a call
\* that returns returns the glyph of the piece it asked for, and every entry
\* of the memory cache maps a piece to its own glyph.
C8_RacesDoNotCorrupt ==
    /\ \A t \in DOMAIN tret : \A k \in 1..Len(tret[t]) :
          ~tret[t][k].raised => tret[t][k].image = GlyphOfPiece(tret[t][k].piece)
    /\ \A key \in DOMAIN cache : cache[key] = GlyphOfPiece(key)

\* both threads asked for the same piece, both started the rasterizer for it,
\* and both have returned
C8_Witness ==
    /\ tpc = [t \in Threads |-> "idle"]
    /\ \E p \in ThreadPieces :
          /\ tstarts[p] = 2
          /\ p \in DOMAIN cache
          /\ \A t \in Threads : \E k \in 1..Len(tret[t]) :
                 tret[t][k].piece = p /\ ~tret[t][k].raised

-----------------------------------------------------------------------------
(* Claim about the rasterizer run, checked under SpecPipe.                 *)

\* C10: render on a full cache miss finishes for every output length, longer
\* than the pipe's capacity included: while the caller waits for the child to
\* exit, the run can always go on (the child can write or exit, or the wait
\* can return), so the wait never blocks forever.
C10_WaitNeverBlocksForever ==
    ppc = "wait" => ENABLED PipeNext

=============================================================================
